---- MODULE Spec2Model ----
(***************************************************************************)
(* Model of v8.py (Pro-Trade Monitor): fetch_data, get_vix_status,         *)
(* analyze_stock and the script's refresh loop.                            *)
(*                                                                         *)
(* Numbers.  Prices and volumes are integers (ticks, lots); every derived  *)
(* float is an exact rational cell [k |-> "num", n, d].  A pandas NaN is   *)
(* the cell NaN and a Python None is the cell None; a DataFrame is a       *)
(* record of columns (sequences, one entry per bar).  VIX closes are in    *)
(* hundredths of a point, so 20.0 is 2000 and 0.2 is 20.                   *)
(*                                                                         *)
(* Library calls.  ta.ema, ta.sma and ta.rsi are pandas_ta: each returns   *)
(* None (no column) when the series has fewer rows than its length, and a  *)
(* column that is NaN during its warm-up otherwise.  EMA and SMA values    *)
(* are computed from the bars; RSI values are left uninterpreted.  A       *)
(* comparison or a division with a None operand raises TypeError.          *)
(*                                                                         *)
(* Three specifications: Spec is the script with its refresh loop,         *)
(* SpecAnalyze is analyze_stock over a family of series and slider         *)
(* settings, SpecVix is get_vix_status over the provider's answers.        *)
(***************************************************************************)
EXTENDS Integers, Sequences, FiniteSets, TLC

VARIABLES
    pc,            \* position of the script
    symbols,       \* line 85: the configured symbol list
    ema_f_val,     \* line 87: fast EMA slider
    ema_s_val,     \* line 88: slow EMA slider
    refresh_rate,  \* line 89: refresh slider (seconds)
    vix_resp,      \* what the provider answered for "^VIX" (line 35)
    v_val,         \* line 98
    v_chg,         \* line 98
    banner,        \* line 101: the system hint that was rendered
    idx,           \* line 108: index of the symbol being processed
    df_raw,        \* line 109
    ret,           \* what the last analyze_stock call did (line 110)
    stock_cache,   \* line 106
    cards,         \* lines 113-120: summary entries rendered this cycle
    details,       \* lines 125-164: detail views rendered this cycle
    log,           \* history: the steps taken in the current cycle
    cycle          \* history: number of the current refresh cycle

vars == <<pc, symbols, ema_f_val, ema_s_val, refresh_rate, vix_resp, v_val, v_chg, banner,
          idx, df_raw, ret, stock_cache, cards, details, log, cycle>>

----------------------------------------------------------------------------
(* Bounds of the model *)

\* closes, highs and lows range over 100 + 10*k, k in -PriceSpan..PriceSpan
PriceSpan == 1
\* the latest bar's volume ranges over 0..MaxVol
MaxVol == 2
\* the "^VIX" series has at most MaxVixBars bars
MaxVixBars == 3
\* the symbol list has at most MaxSymbols entries
MaxSymbols == 2
\* refresh cycles explored
MaxCycles == 2

----------------------------------------------------------------------------
(* Program constants *)

MIN_BARS == 30          \* line 42: len(df) < 30
RSI_LEN == 14           \* line 48
VOL_MA_LEN == 10        \* line 49
NEAR_RES_NUM == 998     \* line 68: 0.998 = 998 / 1000
NEAR_RES_DEN == 1000
EMA_F_MIN == 5          \* line 87
EMA_F_MAX == 20
EMA_F_DEFAULT == 9
EMA_S_MIN == 21         \* line 88
EMA_S_MAX == 60
REFRESH_DEFAULT == 60   \* line 89
VIX_DEFAULT == 2000     \* line 36: 20.0
VIX_MIN_BARS == 2       \* line 36: len(vix) < 2
VIX_ALERT == 20         \* line 101: v_chg > 0.2

----------------------------------------------------------------------------
(* Cells: exact rationals, NaN and None *)

None == [k |-> "none"]
NaN == [k |-> "nan"]

Abs(x) == IF x < 0 THEN -x ELSE x

RECURSIVE Gcd(_, _)
Gcd(a, b) == IF b = 0 THEN a ELSE Gcd(b, a % b)

\* the rational n/d in lowest terms with a positive denominator (d # 0)
Num(n, d) ==
    LET g == Gcd(Abs(n), Abs(d))
        s == IF d < 0 THEN -1 ELSE 1
    IN  [k |-> "num", n |-> s * (n \div g), d |-> s * (d \div g)]

Whole(i) == [k |-> "num", n |-> i, d |-> 1]

IsNum(c) == c.k = "num"
IsNone(c) == c.k = "none"

\* float arithmetic: NaN propagates
FAdd(a, b) == IF IsNum(a) /\ IsNum(b) THEN Num(a.n * b.d + b.n * a.d, a.d * b.d) ELSE NaN
FSub(a, b) == IF IsNum(a) /\ IsNum(b) THEN Num(a.n * b.d - b.n * a.d, a.d * b.d) ELSE NaN
FMul(a, b) == IF IsNum(a) /\ IsNum(b) THEN Num(a.n * b.n, a.d * b.d) ELSE NaN
\* the divisor is not zero wherever the model divides
FDiv(a, b) == IF IsNum(a) /\ IsNum(b) THEN Num(a.n * b.d, a.d * b.n) ELSE NaN

\* float comparisons: every comparison with a NaN is False, except !=
FLt(a, b) == IsNum(a) /\ IsNum(b) /\ a.n * b.d < b.n * a.d
FLe(a, b) == IsNum(a) /\ IsNum(b) /\ a.n * b.d <= b.n * a.d
FGt(a, b) == FLt(b, a)
FGe(a, b) == FLe(b, a)
FNe(a, b) == ~(IsNum(a) /\ IsNum(b) /\ a.n * b.d = b.n * a.d)

----------------------------------------------------------------------------
(* DataFrames and the pandas_ta indicators analyze_stock calls *)

Col(seq) == [k |-> "col", v |-> seq]

\* column[i] of a column that may be None (df['X'] = None makes every row None)
ColAt(col, i) == IF IsNone(col) THEN None ELSE col.v[i]

RECURSIVE SumSeq(_, _, _)
SumSeq(s, lo, hi) == IF lo > hi THEN 0 ELSE s[lo] + SumSeq(s, lo + 1, hi)

\* the EMA recurrence from row i on: y[i] = y[i-1] + 2/(length+1) * (x[i] - y[i-1])
RECURSIVE EmaRows(_, _, _, _, _)
EmaRows(close, length, i, prev, acc) ==
    IF i > Len(close) THEN acc
    ELSE LET y == Num((length - 1) * prev.n + 2 * close[i] * prev.d,
                      (length + 1) * prev.d)
         IN  EmaRows(close, length, i + 1, y, Append(acc, y))

\* ta.ema(close, length): None for a series shorter than length; otherwise
\* NaN on the first length-1 rows, the mean of the first length closes on row
\* length, and the recurrence after it
ta_ema(close, length) ==
    IF Len(close) < length THEN None
    ELSE LET seed == Num(SumSeq(close, 1, length), length)
             head == [i \in 1..length |-> IF i < length THEN NaN ELSE seed]
         IN  Col(EmaRows(close, length, length + 1, seed, head))

\* ta.sma(volume, length): None for a series shorter than length; otherwise
\* NaN on the first length-1 rows and the mean of the trailing window after
ta_sma(volume, length) ==
    IF Len(volume) < length THEN None
    ELSE Col([i \in 1..Len(volume) |->
                IF i < length THEN NaN
                ELSE Num(SumSeq(volume, i - length + 1, i), length)])

\* ta.rsi(close, length): None for a series shorter than length; otherwise a
\* column whose values are a function of the closes that the model does not
\* interpret (no comparison in the program reads them)
ta_rsi(close, length) ==
    IF Len(close) < length THEN None
    ELSE Col([i \in 1..Len(close) |-> [k |-> "rsi", length |-> length, row |-> i]])

----------------------------------------------------------------------------
(* analyze_stock, lines 41-80 *)

\* variant of TooShort: the floor one bar too low
TooShort_OffByOne(df) == IsNone(df) \/ Len(df.Close) < MIN_BARS - 1

\* line 42
TooShort(df) == IsNone(df) \/ Len(df.Close) < MIN_BARS

\* line 54
Pivot(high, low, close) == FDiv(FAdd(FAdd(high, low), close), Whole(3))
\* variant of Res1: 2 * (pivot - low)
Res1_Paren(pivot, low) == FMul(Whole(2), FSub(pivot, low))

\* line 55
Res1(pivot, low) == FSub(FMul(Whole(2), pivot), low)
\* line 55
Sup1(pivot, high) == FSub(FMul(Whole(2), pivot), high)

\* variant of VolRatio: 0.0 instead of 1.0 for a zero average
VolRatio_ZeroFallback(volume, vol_ma) ==
    IF FNe(vol_ma, Whole(0)) THEN FDiv(volume, vol_ma) ELSE Whole(0)

\* line 58
VolRatio(volume, vol_ma) ==
    IF FNe(vol_ma, Whole(0)) THEN FDiv(volume, vol_ma) ELSE Whole(1)

\* line 59
Trend(last) == IF FGt(last.EMA_F, last.EMA_S) THEN "Bullish" ELSE "Bearish"

\* line 64
GoldenCross(prev, last) ==
    FLe(prev.EMA_F, prev.EMA_S) /\ FGt(last.EMA_F, last.EMA_S)

\* variant of DeathCross: the operands of the latest-bar comparison swapped
DeathCross_Swapped(prev, last) ==
    FGe(prev.EMA_F, prev.EMA_S) /\ FLt(last.EMA_S, last.EMA_F)

\* line 66
DeathCross(prev, last) ==
    FGe(prev.EMA_F, prev.EMA_S) /\ FLt(last.EMA_F, last.EMA_S)

\* line 68
NearResistance(close, res_1) ==
    FGe(close, FMul(res_1, Num(NEAR_RES_NUM, NEAR_RES_DEN)))

\* variant of Alert: the resistance test ahead of the crossover tests
Alert_ResistanceFirst(prev, last, close, res_1) ==
    IF NearResistance(close, res_1) THEN <<"near_resistance", "warning">>
    ELSE IF GoldenCross(prev, last) THEN <<"golden_cross", "error">>
    ELSE IF DeathCross(prev, last) THEN <<"death_cross", "error">>
    ELSE <<"monitoring", "success">>

\* lines 63-69: the (msg, level) pair
Alert(prev, last, close, res_1) ==
    IF GoldenCross(prev, last) THEN <<"golden_cross", "error">>
    ELSE IF DeathCross(prev, last) THEN <<"death_cross", "error">>
    ELSE IF NearResistance(close, res_1) THEN <<"near_resistance", "warning">>
    ELSE <<"monitoring", "success">>

\* line 73
ChgPct(close, open) == FMul(FDiv(FSub(close, open), open), Whole(100))

\* lines 46-49: the copy of df with the four indicator columns
Augment(df, ema_f, ema_s) ==
    [k |-> "frame",
     Open |-> df.Open, High |-> df.High, Low |-> df.Low,
     Close |-> df.Close, Volume |-> df.Volume,
     EMA_F |-> ta_ema(df.Close, ema_f),
     EMA_S |-> ta_ema(df.Close, ema_s),
     RSI |-> ta_rsi(df.Close, RSI_LEN),
     Vol_MA |-> ta_sma(df.Volume, VOL_MA_LEN)]

\* df.iloc[i] restricted to the indicator columns
IndRow(df, i) ==
    [EMA_F |-> ColAt(df.EMA_F, i), EMA_S |-> ColAt(df.EMA_S, i),
     RSI |-> ColAt(df.RSI, i), Vol_MA |-> ColAt(df.Vol_MA, i)]

\* an operand of lines 58-74 is None: Python raises TypeError (first at line
\* 59, where the EMA cells are compared)
HitsNone(prev, last) ==
    \/ IsNone(last.Vol_MA)
    \/ IsNone(last.EMA_F) \/ IsNone(last.EMA_S)
    \/ IsNone(prev.EMA_F) \/ IsNone(prev.EMA_S)
    \/ IsNone(last.RSI)

Returned(df, info) == [status |-> "return", df |-> df, info |-> info]
Raised == [status |-> "raise", df |-> None, info |-> None]

\* lines 71-79
Info(close, open, last, vol_ratio, trend, res_1, sup_1, alert) ==
    [k |-> "info",
     price |-> close,
     chg_pct |-> ChgPct(close, open),
     rsi |-> last.RSI,
     vol_ratio |-> vol_ratio,
     trend |-> trend,
     res |-> res_1, sup |-> sup_1,
     msg |-> alert[1], level |-> alert[2]]

\* lines 44-80: analyze_stock past the guard of line 42
Analysis(df_in, ema_f, ema_s) ==
    LET df == Augment(df_in, ema_f, ema_s)
        n == Len(df.Close)
        last == IndRow(df, n)
        prev == IndRow(df, n - 1)
        high == Whole(df.High[n])
        low == Whole(df.Low[n])
        close == Whole(df.Close[n])
        pivot == Pivot(high, low, close)
        res_1 == Res1(pivot, low)
        sup_1 == Sup1(pivot, high)
    IN  IF HitsNone(prev, last) THEN Raised
        ELSE Returned(df,
               Info(close, Whole(df.Open[n]), last,
                    VolRatio(Whole(df.Volume[n]), last.Vol_MA),
                    Trend(last), res_1, sup_1,
                    Alert(prev, last, close, res_1)))

\* variant of analyze_stock: a rising index turns a normal alert into a caution
analyze_stock_VixAware(df_in, vchg, ema_f, ema_s) ==
    IF TooShort(df_in) THEN Returned(None, None)
    ELSE LET r == Analysis(df_in, ema_f, ema_s)
         IN  IF r.status = "return" /\ vchg > VIX_ALERT /\ r.info.level = "success"
             THEN [r EXCEPT !.info.level = "warning"]
             ELSE r

\* lines 41-80; v_chg is accepted and never read
analyze_stock(df_in, vchg, ema_f, ema_s) ==
    IF TooShort(df_in) THEN Returned(None, None)
    ELSE Analysis(df_in, ema_f, ema_s)

----------------------------------------------------------------------------
(* fetch_data, lines 22-32, and get_vix_status, lines 34-39 *)

\* What yf.download does: it raises, or it delivers a table (possibly empty)
\* whose column labels are flat or a MultiIndex.
Raises == [k |-> "raise"]
Delivers(frame, labels) == [k |-> "data", frame |-> frame, labels |-> labels]

\* lines 23-32: None on an exception or an empty table; otherwise the table
\* under its level-0 column labels (the fields of the frame record)
fetch_data(resp) ==
    IF resp.k = "raise" THEN None
    ELSE IF Len(resp.frame.Close) = 0 THEN None
    ELSE resp.frame

\* variant of get_vix_status: (0.0, 0.0) as the fallback
get_vix_status_ZeroDefault(resp) ==
    LET vix == fetch_data(resp)
    IN  IF IsNone(vix) \/ Len(vix.Close) < VIX_MIN_BARS THEN <<0, 0>>
        ELSE <<vix.Close[Len(vix.Close)],
               vix.Close[Len(vix.Close)] - vix.Close[Len(vix.Close) - 1]>>

\* lines 35-39: the pair (curr_v, v_chg)
get_vix_status(resp) ==
    LET vix == fetch_data(resp)
    IN  IF IsNone(vix) \/ Len(vix.Close) < VIX_MIN_BARS THEN <<VIX_DEFAULT, 0>>
        ELSE <<vix.Close[Len(vix.Close)],
               vix.Close[Len(vix.Close)] - vix.Close[Len(vix.Close) - 1]>>

\* line 101: which of the two hints the banner shows
Banner(vchg) == IF vchg > VIX_ALERT THEN "volatile" ELSE "stable"

----------------------------------------------------------------------------
(* Inputs: the series the provider can deliver and the slider settings *)

Prices == {100 + 10 * k : k \in -PriceSpan..PriceSpan}

\* A series of n bars.  Bars 1..n-2 are flat at 100 with volume vp; bar n-1
\* closes at x1 (flat, volume vp); bar n has the given open, high, low, close
\* x2 and volume v.
MkFrame(n, x1, x2, open, high, low, v, vp) ==
    LET c == [i \in 1..n |-> IF i = n THEN x2 ELSE IF i = n - 1 THEN x1 ELSE 100]
    IN  [k |-> "frame",
         Open |-> [i \in 1..n |-> IF i = n THEN open ELSE c[i]],
         High |-> [i \in 1..n |-> IF i = n THEN high ELSE c[i]],
         Low |-> [i \in 1..n |-> IF i = n THEN low ELSE c[i]],
         Close |-> c,
         Volume |-> [i \in 1..n |-> IF i = n THEN v ELSE vp]]

\* The latest bar is well formed (low <= open, close <= high, prices > 0): a
\* flat bar, a bar of range +-10 around its close, or a bar closing at its low.
LastBars == {b \in [open : Prices \cup {p - 10 : p \in Prices},
                    high : Prices \cup {p + 10 : p \in Prices},
                    low : Prices \cup {p - 10 : p \in Prices},
                    close : Prices] :
                \/ b.open = b.close /\ b.high = b.close /\ b.low = b.close
                \/ /\ b.high = b.close + 10 /\ b.low = b.close - 10
                   /\ b.open \in {b.low, b.close}
                \/ b.open = b.close /\ b.high = b.close + 10 /\ b.low = b.close}

FastLens == {EMA_F_MIN, EMA_F_MAX}
SlowLens == {EMA_S_MIN, MIN_BARS, EMA_S_MAX}

\* series lengths around the floor of line 42 and around the slow EMA lengths
LongCounts == {MIN_BARS, MIN_BARS + 1, EMA_S_MAX, EMA_S_MAX + 1}
ShortCounts == {0, 1, MIN_BARS - 1}

\* volumes are not negative: either the whole series has volume 0, or the
\* earlier bars have volume 1 and the latest bar has volume v
Volumes == {<<0, 0>>} \cup {<<v, 1>> : v \in 0..MaxVol}

LongFrames == {MkFrame(n, x1, b.close, b.open, b.high, b.low, vol[1], vol[2]) :
                 n \in LongCounts, x1 \in Prices, b \in LastBars, vol \in Volumes}
ShortFrames == {MkFrame(n, 100, 100, 100, 100, 100, 1, 1) : n \in ShortCounts}

\* the v_chg values get_vix_status can hand over (hundredths of a point)
VChgs == {0, 30}

----------------------------------------------------------------------------
(* analyze_stock as a function of its arguments *)

InitAnalyze ==
    /\ pc = "call"
    /\ df_raw \in {None} \cup ShortFrames \cup LongFrames
    /\ v_chg \in VChgs
    /\ ema_f_val \in FastLens
    /\ ema_s_val \in SlowLens
    /\ ret = None
    /\ symbols = <<>> /\ refresh_rate = REFRESH_DEFAULT
    /\ vix_resp = None /\ v_val = VIX_DEFAULT /\ banner = ""
    /\ idx = 0 /\ stock_cache = <<>> /\ cards = <<>> /\ details = <<>>
    /\ log = <<>> /\ cycle = 0

\* line 110
CallAnalyze ==
    /\ pc = "call"
    /\ ret' = analyze_stock(df_raw, v_chg, ema_f_val, ema_s_val)
    /\ pc' = "returned"
    /\ UNCHANGED <<symbols, ema_f_val, ema_s_val, refresh_rate, vix_resp, v_val,
                   v_chg, banner, idx, df_raw, stock_cache, cards, details, log,
                   cycle>>

NextAnalyze == CallAnalyze

SpecAnalyze == InitAnalyze /\ [][NextAnalyze]_vars

----------------------------------------------------------------------------
(* get_vix_status as a function of the provider's answer *)

VixCloses == {1980, 2000, 2030}

VixFrame(closes) ==
    [k |-> "frame", Open |-> closes, High |-> closes, Low |-> closes,
     Close |-> closes, Volume |-> [i \in 1..Len(closes) |-> 0]]

VixResps ==
    {Raises} \cup
    {Delivers(VixFrame(c), labels) :
        c \in UNION {[1..m -> VixCloses] : m \in 0..MaxVixBars},
        labels \in {"flat", "multi"}}

InitVix ==
    /\ pc = "vix_call"
    /\ vix_resp \in VixResps
    /\ v_val = 0 /\ v_chg = 0 /\ banner = ""
    /\ symbols = <<>> /\ ema_f_val = EMA_F_DEFAULT /\ ema_s_val = EMA_S_MIN
    /\ refresh_rate = REFRESH_DEFAULT
    /\ idx = 0 /\ df_raw = None /\ ret = None /\ stock_cache = <<>>
    /\ cards = <<>> /\ details = <<>> /\ log = <<>> /\ cycle = 0

\* lines 98-101
CallVix ==
    /\ pc = "vix_call"
    /\ v_val' = get_vix_status(vix_resp)[1]
    /\ v_chg' = get_vix_status(vix_resp)[2]
    /\ banner' = Banner(v_chg')
    /\ pc' = "vix_returned"
    /\ UNCHANGED <<symbols, ema_f_val, ema_s_val, refresh_rate, vix_resp, idx,
                   df_raw, ret, stock_cache, cards, details, log, cycle>>

NextVix == CallVix

SpecVix == InitVix /\ [][NextVix]_vars

----------------------------------------------------------------------------
(* The script: lines 84-89 and the refresh loop, lines 95-167 *)

\* line 85: the list is never empty ("".split(",") has one entry) and may
\* name a symbol twice
SymbolLists == UNION {[1..m -> {"AAPL", "NVDA"}] : m \in 1..MaxSymbols}

\* what the provider answers for a symbol in the loop
MainFrames == {MkFrame(n, 90, 110, 110, 110, 110, 1, 1) :
                 n \in {0, MIN_BARS - 1, MIN_BARS, MIN_BARS + 2}}
MainResps == {Raises} \cup {Delivers(f, "multi") : f \in MainFrames}

MainVixResps == {Raises, Delivers(VixFrame(<<2000, 2030>>), "flat")}

EmptyCache == [s \in {} |-> None]

Event(ev, i) == [ev |-> ev, i |-> i]

\* lines 113-120: the summary entry of one symbol
Card(sym, info) ==
    IF ~IsNone(info)
    THEN [sym |-> sym, kind |-> info.level, msg |-> info.msg,
          trend |-> info.trend, vol_ratio |-> info.vol_ratio]
    ELSE [sym |-> sym, kind |-> "no_data", msg |-> "", trend |-> "",
          vol_ratio |-> NaN]

\* df.tail(30), as row numbers
Tail30(n) == {i \in 1..n : i > n - 30}

\* lines 126-164: the detail view of one symbol, rendered when df is not None
Detail(sym, entry) ==
    [sym |-> sym, price |-> entry[2].price, chg_pct |-> entry[2].chg_pct,
     rsi |-> entry[2].rsi, res |-> entry[2].res, sup |-> entry[2].sup,
     rows |-> Tail30(Len(entry[1].Close))]

RECURSIVE Details(_, _, _)
Details(syms, cache, i) ==
    IF i > Len(syms) THEN <<>>
    ELSE IF IsNone(cache[syms[i]][1]) THEN Details(syms, cache, i + 1)
    ELSE <<Detail(syms[i], cache[syms[i]])>> \o Details(syms, cache, i + 1)

\* variant of AfterSymbol: the loop ends one symbol early
AfterSymbol_SkipLast(i, n) ==
    IF i + 1 < n THEN <<"fetch", i + 1>> ELSE <<"detail", i>>

\* line 108: the loop goes on to the next symbol, or ends
AfterSymbol(i, n) ==
    IF i < n THEN <<"fetch", i + 1>> ELSE <<"detail", i>>

Init ==
    /\ pc = "vix"
    /\ symbols \in SymbolLists
    /\ ema_f_val = EMA_F_DEFAULT
    /\ ema_s_val \in {EMA_S_MIN, MIN_BARS + 1}
    /\ refresh_rate = REFRESH_DEFAULT
    /\ vix_resp = None /\ v_val = VIX_DEFAULT /\ v_chg = 0 /\ banner = ""
    /\ idx = 0 /\ df_raw = None /\ ret = None /\ stock_cache = EmptyCache
    /\ cards = <<>> /\ details = <<>> /\ log = <<>>
    /\ cycle = 1

\* lines 96-106: the VIX banner, the summary header and the empty cache
VixBanner ==
    /\ pc = "vix"
    /\ \E resp \in MainVixResps :
          /\ vix_resp' = resp
          /\ v_val' = get_vix_status(resp)[1]
          /\ v_chg' = get_vix_status(resp)[2]
    /\ banner' = Banner(v_chg')
    /\ stock_cache' = EmptyCache
    /\ cards' = <<>> /\ details' = <<>>
    /\ idx' = 1
    /\ pc' = "fetch"
    /\ log' = Append(log, Event("vix", 0))
    /\ UNCHANGED <<symbols, ema_f_val, ema_s_val, refresh_rate, df_raw, ret, cycle>>

\* line 109
Fetch ==
    /\ pc = "fetch"
    /\ \E resp \in MainResps : df_raw' = fetch_data(resp)
    /\ pc' = "analyze"
    /\ log' = Append(log, Event("fetch", idx))
    /\ UNCHANGED <<symbols, ema_f_val, ema_s_val, refresh_rate, vix_resp, v_val,
                   v_chg, banner, idx, ret, stock_cache, cards, details, cycle>>

\* lines 110-120, analyze_stock returns: the cache entry and the summary entry
Analyze ==
    /\ pc = "analyze"
    /\ LET r == analyze_stock(df_raw, v_chg, ema_f_val, ema_s_val)
           next == AfterSymbol(idx, Len(symbols))
       IN  /\ r.status = "return"
           /\ ret' = r
           /\ stock_cache' = (symbols[idx] :> <<r.df, r.info>>) @@ stock_cache
           /\ cards' = Append(cards, Card(symbols[idx], r.info))
           /\ pc' = next[1]
           /\ idx' = next[2]
    /\ log' = Append(log, Event("analyze", idx))
    /\ UNCHANGED <<symbols, ema_f_val, ema_s_val, refresh_rate, vix_resp, v_val,
                   v_chg, banner, df_raw, details, cycle>>

\* line 110, analyze_stock raises: nothing catches the exception, the run of
\* the script ends there
AnalyzeRaises ==
    /\ pc = "analyze"
    /\ LET r == analyze_stock(df_raw, v_chg, ema_f_val, ema_s_val)
       IN  /\ r.status = "raise"
           /\ ret' = r
    /\ pc' = "crashed"
    /\ UNCHANGED <<symbols, ema_f_val, ema_s_val, refresh_rate, vix_resp, v_val,
                   v_chg, banner, idx, df_raw, stock_cache, cards, details, log,
                   cycle>>

\* lines 122-164
RenderDetails ==
    /\ pc = "detail"
    /\ details' = Details(symbols, stock_cache, 1)
    /\ pc' = "sleep"
    /\ log' = Append(log, Event("render", 0))
    /\ UNCHANGED <<symbols, ema_f_val, ema_s_val, refresh_rate, vix_resp, v_val,
                   v_chg, banner, idx, df_raw, ret, stock_cache, cards, cycle>>

\* line 166
Sleep ==
    /\ pc = "sleep"
    /\ pc' = "rerun"
    /\ log' = Append(log, Event("sleep", refresh_rate))
    /\ UNCHANGED <<symbols, ema_f_val, ema_s_val, refresh_rate, vix_resp, v_val,
                   v_chg, banner, idx, df_raw, ret, stock_cache, cards, details,
                   cycle>>

\* line 167: st.rerun() runs the script again from the top with the same
\* widget values; nothing the previous run computed is kept
Rerun ==
    /\ pc = "rerun"
    /\ cycle < MaxCycles
    /\ cycle' = cycle + 1
    /\ pc' = "vix"
    /\ vix_resp' = None /\ v_val' = VIX_DEFAULT /\ v_chg' = 0 /\ banner' = ""
    /\ idx' = 0 /\ df_raw' = None /\ ret' = None /\ stock_cache' = EmptyCache
    /\ cards' = <<>> /\ details' = <<>> /\ log' = <<>>
    /\ UNCHANGED <<symbols, ema_f_val, ema_s_val, refresh_rate>>

Next ==
    \/ VixBanner
    \/ Fetch
    \/ Analyze
    \/ AnalyzeRaises
    \/ RenderDetails
    \/ Sleep
    \/ Rerun

Spec == Init /\ [][Next]_vars

----------------------------------------------------------------------------
(* Claims about analyze_stock, checked under SpecAnalyze *)

\* analyze_stock returned a (table, snapshot) pair with a snapshot in it
Snap == pc = "returned" /\ ret.status = "return" /\ ~IsNone(ret.info)

InfoFields == {"price", "chg_pct", "rsi", "vol_ratio", "trend", "res", "sup",
               "msg", "level"}
InfoCells == {"price", "chg_pct", "rsi", "vol_ratio", "res", "sup"}

\* the indicator cells of the latest and the previous bar of the returned table
RetLast == IndRow(ret.df, Len(ret.df.Close))
RetPrev == IndRow(ret.df, Len(ret.df.Close) - 1)

\* C1: an absent input or a series of fewer than 30 bars gives the no-result
\* pair without raising; and whatever analyze_stock returns is all-or-nothing:
\* table and snapshot both absent, or both present with all nine snapshot
\* fields populated.
C1_AllOrNothing ==
    pc = "returned" =>
        /\ (IsNone(df_raw) \/ Len(df_raw.Close) < 30) =>
              ret.status = "return" /\ IsNone(ret.df) /\ IsNone(ret.info)
        /\ ret.status = "return" =>
              /\ IsNone(ret.df) <=> IsNone(ret.info)
              /\ ~IsNone(ret.df) =>
                    /\ DOMAIN ret.info = InfoFields \cup {"k"}
                    /\ \A f \in InfoCells : ~IsNone(ret.info[f])
                    /\ ret.info.trend \in {"Bullish", "Bearish"}
                    /\ ret.info.level \in {"error", "warning", "success"}

C1_Witness ==
    /\ pc = "returned"
    /\ ~IsNone(df_raw) /\ Len(df_raw.Close) = 29
    /\ IsNone(ret.df) /\ IsNone(ret.info)

Max2(a, b) == IF a >= b THEN a ELSE b

\* C2: a snapshot is produced only for a series of at least
\* max(slowLen, 14, 10) + 1 bars, a shorter series gives the no-result pair, and
\* whenever a snapshot is produced the fast and slow EMA of the latest and of the
\* previous bar are defined values.
C2_WarmupFloor ==
    pc = "returned" =>
        LET need == Max2(ema_s_val, Max2(14, 10)) + 1
        IN  /\ (IsNone(df_raw) \/ Len(df_raw.Close) < need) =>
                  ret.status = "return" /\ IsNone(ret.df) /\ IsNone(ret.info)
            /\ Snap =>
                  /\ Len(df_raw.Close) >= need
                  /\ IsNum(RetLast.EMA_F) /\ IsNum(RetLast.EMA_S)
                  /\ IsNum(RetPrev.EMA_F) /\ IsNum(RetPrev.EMA_S)

\* C3: the alert is the first match of the chain golden cross (critical),
\* death cross (critical), close >= 0.998 * R1 (caution), monitoring (normal);
\* so a crossover inside the near-resistance band is reported as the crossover.
C3_AlertChain ==
    Snap =>
        LET p == RetPrev
            l == RetLast
            golden == FLe(p.EMA_F, p.EMA_S) /\ FGt(l.EMA_F, l.EMA_S)
            death == FGe(p.EMA_F, p.EMA_S) /\ FLt(l.EMA_F, l.EMA_S)
            near == ret.info.price.n * ret.info.res.d * 1000
                       >= 998 * ret.info.res.n * ret.info.price.d
            alert == <<ret.info.msg, ret.info.level>>
        IN  /\ golden => alert = <<"golden_cross", "error">>
            /\ ~golden /\ death => alert = <<"death_cross", "error">>
            /\ ~golden /\ ~death /\ near => alert = <<"near_resistance", "warning">>
            /\ ~golden /\ ~death /\ ~near => alert = <<"monitoring", "success">>

\* a golden cross whose close is also inside the near-resistance band
C3_Witness ==
    /\ Snap
    /\ ret.info.msg = "golden_cross" /\ ret.info.level = "error"
    /\ NearResistance(ret.info.price, ret.info.res)

\* C4: the golden-cross and the death-cross condition are never both true.
C4_CrossExclusive ==
    Snap => ~(GoldenCross(RetPrev, RetLast) /\ DeathCross(RetPrev, RetLast))

\* a golden cross out of equality: the previous bar satisfies both "<=" and ">="
C4_Witness ==
    /\ Snap
    /\ GoldenCross(RetPrev, RetLast)
    /\ FLe(RetPrev.EMA_F, RetPrev.EMA_S) /\ FGe(RetPrev.EMA_F, RetPrev.EMA_S)

\* C7: the result of analyze_stock does not depend on v_chg: on the same series
\* and EMA lengths every other v_chg gives the same table and snapshot.
C7_VixAdvisory ==
    pc = "returned" =>
        \A v \in VChgs \ {v_chg} :
            analyze_stock(df_raw, v, ema_f_val, ema_s_val) = ret

\* a snapshot computed while the index is rising by more than 0.2
C7_Witness == Snap /\ v_chg > VIX_ALERT /\ ret.info.level = "success"

\* C8: the volume ratio is 1 when the 10-bar volume average of the latest bar
\* is zero, latest volume / average otherwise, and never negative.
C8_VolRatio ==
    Snap =>
        LET n == Len(df_raw.Close)
            sum10 == SumSeq(df_raw.Volume, n - 9, n)
            r == ret.info.vol_ratio
        IN  /\ RetLast.Vol_MA = Num(sum10, 10)
            /\ sum10 = 0 => r = Whole(1)
            /\ sum10 # 0 => r.n * sum10 = r.d * df_raw.Volume[n] * 10
            /\ r.n >= 0 /\ r.d > 0

C8_Witness ==
    /\ Snap
    /\ RetLast.Vol_MA = Whole(0)
    /\ ret.info.vol_ratio = Whole(1)

\* C9: res = 2P - low and sup = 2P - high with P = (high + low + close) / 3 of
\* the latest bar; close 100, high 110, low 90 gives R1 = 110 and S1 = 90.
C9_Pivot ==
    Snap =>
        LET n == Len(df_raw.Close)
            h == df_raw.High[n]
            l == df_raw.Low[n]
            c == df_raw.Close[n]
        IN  /\ 3 * ret.info.res.n = ret.info.res.d * (2 * (h + l + c) - 3 * l)
            /\ 3 * ret.info.sup.n = ret.info.sup.d * (2 * (h + l + c) - 3 * h)
            /\ (c = 100 /\ h = 110 /\ l = 90) =>
                  ret.info.res = Whole(110) /\ ret.info.sup = Whole(90)

C9_Witness ==
    /\ Snap
    /\ df_raw.Close[Len(df_raw.Close)] = 100
    /\ df_raw.High[Len(df_raw.Close)] = 110
    /\ df_raw.Low[Len(df_raw.Close)] = 90
    /\ ret.info.res = Whole(110) /\ ret.info.sup = Whole(90)
    /\ Pivot(Whole(110), Whole(90), Whole(100)) = Whole(100)

----------------------------------------------------------------------------
(* Claim about get_vix_status, checked under SpecVix *)

\* C6: get_vix_status returns exactly (20.0, 0.0) when the fetch yields no data
\* or fewer than 2 bars, and (latest close, latest close - previous close) for
\* 2 or more bars.
C6_VixFallback ==
    pc = "vix_returned" =>
        LET none == vix_resp.k = "raise" \/ Len(vix_resp.frame.Close) < 2
            c == vix_resp.frame.Close
        IN  /\ none => v_val = 2000 /\ v_chg = 0
            /\ ~none => v_val = c[Len(c)] /\ v_chg = c[Len(c)] - c[Len(c) - 1]

\* a single bar that does not close at 20.0
C6_Witness ==
    /\ pc = "vix_returned"
    /\ vix_resp.k = "data"
    /\ Len(vix_resp.frame.Close) = 1 /\ vix_resp.frame.Close[1] = 2030
    /\ v_val = 2000 /\ v_chg = 0

----------------------------------------------------------------------------
(* Claims about the refresh loop, checked under Spec *)

\* C5: no outcome of one symbol (fetch exception, empty result, a series too
\* short to analyze) ends the cycle: the run never stops inside the symbol loop,
\* and when the cycle is at its sleep step every configured symbol has been
\* fetched, analyzed and given its summary entry.
C5_NonFatal ==
    /\ pc # "crashed"
    /\ pc \in {"sleep", "rerun"} =>
          /\ Len(cards) = Len(symbols)
          /\ \A i \in 1..Len(symbols) :
                /\ cards[i].sym = symbols[i]
                /\ \E j \in 1..Len(log) : log[j] = Event("fetch", i)
                /\ \E j \in 1..Len(log) : log[j] = Event("analyze", i)

\* the steps of one refresh iteration over n symbols, in order
ExpectedStep(j, n) ==
    IF j = 1 THEN Event("vix", 0)
    ELSE IF j = 2 * n + 2 THEN Event("render", 0)
    ELSE IF j = 2 * n + 3 THEN Event("sleep", refresh_rate)
    ELSE IF j % 2 = 0 THEN Event("fetch", j \div 2)
    ELSE Event("analyze", j \div 2)

\* C10: an iteration fetches the volatility index, then fetches and analyzes
\* each symbol in list order, then renders, then sleeps for the refresh period;
\* it starts from an empty cache, and what it renders was analyzed in it.
C10_CycleOrder ==
    LET n == Len(symbols)
    IN  /\ Len(log) <= 2 * n + 3
        /\ \A j \in 1..Len(log) : log[j] = ExpectedStep(j, n)
        /\ pc = "vix" => log = <<>>
        /\ pc = "fetch" => Len(log) = 2 * idx - 1
        /\ pc = "analyze" => Len(log) = 2 * idx
        /\ pc = "detail" => Len(log) = 2 * n + 1
        /\ pc = "sleep" => Len(log) = 2 * n + 2
        /\ pc = "rerun" => Len(log) = 2 * n + 3
        /\ (pc = "fetch" /\ idx = 1) => stock_cache = EmptyCache /\ cards = <<>>
        /\ \A sym \in DOMAIN stock_cache :
              \E i \in 1..n : symbols[i] = sym /\
                 \E j \in 1..Len(log) : log[j] = Event("analyze", i)
        /\ \A d \in 1..Len(details) :
              /\ details[d].sym \in DOMAIN stock_cache
              /\ details[d].price = stock_cache[details[d].sym][2].price

\* the second iteration over two symbols has run to its end with a detail view
C10_Witness ==
    /\ pc = "rerun" /\ cycle = 2
    /\ Len(symbols) = 2 /\ Len(details) >= 1
    /\ log[Len(log)] = Event("sleep", refresh_rate)

====
